---- MODULE Spec2Model ----
(***************************************************************************)
(* Model of annotated_meltdown.cpp: the Spectre covert channel.  The       *)
(* sender (transmit_byte, driven by train_and_transmit) encodes a byte in  *)
(* the cache state of the probe array `partitions`; the receiver           *)
(* (receive_bytes) times a read of each of the 256 partitions; best_results*)
(* votes over 99 trials; main classifies each decoded byte.                *)
(*                                                                         *)
(* The cache is modelled deterministically: a line is cached from the      *)
(* moment it is read (architecturally or speculatively) until it is        *)
(* flushed, and the out-of-bounds call of transmit_byte speculatively      *)
(* executes the body of the bounds check.                                  *)
(***************************************************************************)
EXTENDS Integers, Sequences, FiniteSets, TLC

(***************************************************************************)
(* Program constants.                                                      *)
(***************************************************************************)
PARTITION_SIZE == 4096
ARRAY_SIZE == 16
CACHE_HIT_THRESHOLD == 80
TRAINING_RUNS == 5
NUM_PARTITIONS == 256
TRIES == 99

\* unsigned int array_size = ARRAY_SIZE; never written afterwards
array_size == ARRAY_SIZE

\* uint8_t array[ARRAY_SIZE] = { 1,2,...,16 } (0-based index k)
array(k) == k + 1

(***************************************************************************)
(* Bounds of the model.                                                    *)
(***************************************************************************)
\* longest secret string that is decoded
MaxSecretLen == 2
\* elapsed times and thresholds are tried this far around CACHE_HIT_THRESHOLD
MaxDelta == 3
\* number of counters of a drawn table that differ from the table's base
MaxPert == 2

\* byte values a secret is made of: 3 is also a value of array[], 72 = 'H'
SecretBytes == {3, 72}
\* distance secret - array: directly behind array[], or behind unused[64]
SecretOffsets == {16, 80}

Partitions == 0 .. (NUM_PARTITIONS - 1)

(***************************************************************************)
(* 64-bit size_t arithmetic.  TLC integers are 32 bits wide, so a word is  *)
(* four 16-bit limbs, least significant first.                             *)
(***************************************************************************)
LIMB == 2 ^ 16

RECURSIVE BitAnd(_, _)
BitAnd(a, b) ==
    IF a = 0 \/ b = 0 THEN 0
    ELSE (a % 2) * (b % 2) + 2 * BitAnd(a \div 2, b \div 2)

RECURSIVE BitOr(_, _)
BitOr(a, b) ==
    IF a = 0 THEN b
    ELSE IF b = 0 THEN a
    ELSE (IF (a % 2) + (b % 2) > 0 THEN 1 ELSE 0) + 2 * BitOr(a \div 2, b \div 2)

RECURSIVE BitXor(_, _)
BitXor(a, b) ==
    IF a = 0 THEN b
    ELSE IF b = 0 THEN a
    ELSE (((a % 2) + (b % 2)) % 2) + 2 * BitXor(a \div 2, b \div 2)

WordAnd(u, v) == [k \in 1 .. 4 |-> BitAnd(u[k], v[k])]
WordOr(u, v) == [k \in 1 .. 4 |-> BitOr(u[k], v[k])]
WordXor(u, v) == [k \in 1 .. 4 |-> BitXor(u[k], v[k])]
\* logical shift right by 16 bits: drop the lowest limb
WordShr16(u) == <<u[2], u[3], u[4], 0>>

\* a non-negative value < 2^31 as a size_t
ToWord(n) == <<n % LIMB, n \div LIMB, 0, 0>>
\* a size_t whose upper limbs are zero, back as a number
FromWord(u) == u[1] + LIMB * u[2]
WordSmall(u) == u[3] = 0 /\ u[4] = 0 /\ u[2] < 32768

\* IntToWord for an unsigned 32-bit operand: the upper half stays zero
IntToWordZeroExtended(v) ==
    IF v >= 0 THEN <<v % LIMB, v \div LIMB, 0, 0>>
    ELSE LET m == v + 2147483647 + 1
         IN  <<m % LIMB, (m \div LIMB) + 32768, 0, 0>>

\* conversion of a 32-bit int (two's complement) to size_t: sign extension
IntToWord(v) ==
    IF v >= 0 THEN ToWord(v)
    ELSE LET m == v + 2147483647 + 1      \* low 31 bits of the pattern
         IN  <<m % LIMB, (m \div LIMB) + 32768, LIMB - 1, LIMB - 1>>

\* int & ~0xFFFF, evaluated in int: the low 16 bits are cleared
IntClearLow16(v) == v - (v % LIMB)

(***************************************************************************)
(* train_and_transmit, lines 155-157: the branchless choice of the index   *)
(* of round j.                                                             *)
(***************************************************************************)
SelectMask(j) ==
    LET x0 == IntToWord(IntClearLow16((j % (TRAINING_RUNS + 1)) - 1))
    IN  WordOr(x0, WordShr16(x0))

\* line 157 on size_t operands
SelectWord(j, t, m) == WordXor(t, WordAnd(SelectMask(j), WordXor(m, t)))

SelectIndex(j, training_x, malicious_x) ==
    FromWord(SelectWord(j, ToWord(training_x), ToWord(malicious_x)))

(***************************************************************************)
(* State.                                                                  *)
(***************************************************************************)
VARIABLES
    secret,              \* the string behind char *secret (byte values)
    malicious_x,         \* main: secret - (char*)array
    pc,                  \* position of the single thread of control
    i,                   \* main: index of the byte that is being decoded
    tries,               \* transmit_and_receive: trial counter, 99 down to 0
    j,                   \* train_and_transmit: round counter
    x,                   \* argument of the current / last transmit_byte call
    ri,                  \* receive_bytes: loop index i
    aggregated_results,  \* transmit_and_receive: the 256 hit counters
    cached,              \* byte offsets into partitions[] whose line is cached
    array_size_cached,   \* whether the line of array_size is cached
    temp,                \* uint8_t temp
    value,               \* value[2] of the last decode
    score,               \* score[2] of the last decode
    report,              \* the lines main has printed, one per byte
    fault,               \* an architectural read outside array[] happened
    lastCall,            \* what the last transmit_byte call did architecturally
    trainRun,            \* consecutive training calls of this invocation so far
    lastWasMal,          \* the previous transmit_byte call was a malicious one
    nTrainCalls,         \* calls with training_x in this invocation
    nMalCalls,           \* calls with malicious_x in this invocation
    nFlush,              \* flush_cache calls completed in this decode
    nTrain,              \* train_and_transmit calls completed in this decode
    nRecv,               \* receive_bytes calls completed in this decode
    nBest,               \* best_results calls completed in this decode
    bi,                  \* best_results: loop index i
    best,                \* best_results: best
    second_best,         \* best_results: second_best
    trial_count,         \* number of trials of a decode (99 in line 176)
    trainedWith,         \* training indices passed to train_and_transmit in this decode
    h                    \* inputs and results of a function examined on its own

vars == <<secret, malicious_x, pc, i, tries, j, x, ri, aggregated_results,
          cached, array_size_cached, temp, value, score, report, fault,
          lastCall, trainRun, lastWasMal, nTrainCalls, nMalCalls,
          nFlush, nTrain, nRecv, nBest, bi, best, second_best,
          trial_count, trainedWith, h>>

scanVars == <<bi, best, second_best>>
cfgVars == <<trial_count, h>>
\* h while the program itself runs
Idle == [phase |-> "program"]
\* variables that only record what happened (they never steer the program)
decodeCounts == <<nFlush, nTrain, nRecv, nBest>>
callCounts == <<trainRun, lastWasMal, nTrainCalls, nMalCalls>>

\* ZeroTable without lines 171-172: the counters would hold what the stack held
StaleTable == [p \in 0 .. (NUM_PARTITIONS - 1) |-> 200]

NoCall == [x |-> 0, readArray |-> FALSE, readProbe |-> FALSE, tempBefore |-> 0]
ZeroTable == [p \in Partitions |-> 0]

\* the byte that array[k] aliases: array[] itself, or the secret behind it
\* (the terminating NUL included)
MemoryAt(k) ==
    IF k < ARRAY_SIZE THEN array(k)
    ELSE IF k - malicious_x + 1 \in 1 .. Len(secret) THEN secret[k - malicious_x + 1]
    ELSE 0

\* address (byte offset into partitions[]) of partition p
PartitionAddr(p) == p * PARTITION_SIZE

\* target_x without the offset of the byte: main would pass malicious_x
target_x_fixed == malicious_x

\* training_x without the reduction modulo ARRAY_SIZE
training_x_unreduced == tries

\* line 182: the training index of the running trial
training_x == tries % ARRAY_SIZE
\* line 214: the index main passes to transmit_and_receive
target_x == malicious_x + i

(***************************************************************************)
(* best_results, lines 111-128: the scan for the top two counters.         *)
(***************************************************************************)
\* BestStep with `>` in line 117: the earliest maximum would be kept
BestStepStrict(t, k, b) ==
    IF b.best < 0 \/ t[k] > t[b.best]
    THEN [best |-> k, second_best |-> b.best]
    ELSE IF b.second_best < 0 \/ t[k] >= t[b.second_best]
    THEN [best |-> b.best, second_best |-> k]
    ELSE b

\* BestStep with `>` in line 120: the earliest runner-up would be kept
BestStepSecondStrict(t, k, b) ==
    IF b.best < 0 \/ t[k] >= t[b.best]
    THEN [best |-> k, second_best |-> b.best]
    ELSE IF b.second_best < 0 \/ t[k] > t[b.second_best]
    THEN [best |-> b.best, second_best |-> k]
    ELSE b

\* BestStep without the comparison of line 120: the runner-up would only
\* ever be a demoted best
BestStepNoRunnerUp(t, k, b) ==
    IF b.best < 0 \/ t[k] >= t[b.best]
    THEN [best |-> k, second_best |-> b.best]
    ELSE IF b.second_best < 0
    THEN [best |-> b.best, second_best |-> k]
    ELSE b

\* one iteration of the loop body, lines 117-122
BestStep(t, k, b) ==
    IF b.best < 0 \/ t[k] >= t[b.best]
    THEN [best |-> k, second_best |-> b.best]
    ELSE IF b.second_best < 0 \/ t[k] >= t[b.second_best]
    THEN [best |-> b.best, second_best |-> k]
    ELSE b

\* lines 124-127: the result for the table t with the scan ended at b;
\* value[0], score[0] of the code are value[1], score[1] here
best_results(t, b) ==
    [value |-> <<b.best % 256, b.second_best % 256>>,
     score |-> <<t[b.best], t[b.second_best]>>]

(***************************************************************************)
(* The hardware under the program.                                         *)
(***************************************************************************)
\* lines 99-103: cycles a timed read takes; a cached line answers within
\* the threshold, an uncached one does not
ReadTime(isCached) ==
    IF isCached THEN CACHE_HIT_THRESHOLD ELSE CACHE_HIT_THRESHOLD + 1

\* IsHit with `<` for `<=`
IsHitStrict(read_time_duration) == read_time_duration < CACHE_HIT_THRESHOLD

\* IsHitAt with the comparison turned round
IsHitAtReversed(read_time_duration, threshold) == read_time_duration >= threshold

\* lines 84, 105: assume cache hit if time <= threshold
IsHitAt(read_time_duration, threshold) == read_time_duration <= threshold

\* line 105
IsHit(read_time_duration) == IsHitAt(read_time_duration, CACHE_HIT_THRESHOLD)

\* InBounds with `<=` for `<`
InBoundsOffByOne(k) == k <= array_size

\* line 72: the bounds check
InBounds(k) == k < array_size

\* lines 55-68: the lines the mispredicted body of the check pulls in when
\* it runs speculatively with an out-of-bounds k
SpeculativeTouch(k) == {PartitionAddr(MemoryAt(k))}

(***************************************************************************)
(* main, lines 195-229.                                                    *)
(***************************************************************************)
\* lines 210-214 and 167-172: next byte; transmit_and_receive starts with
\* fresh counters
main_call ==
    /\ pc = "main"
    /\ i < Len(secret)
    /\ aggregated_results' = ZeroTable
    /\ tries' = trial_count
    /\ nFlush' = 0 /\ nTrain' = 0 /\ nRecv' = 0 /\ nBest' = 0
    /\ trainedWith' = {}
    /\ pc' = "trial"
    /\ UNCHANGED <<cfgVars, scanVars, secret, malicious_x, i, j, x, ri, cached, array_size_cached,
                   temp, value, score, report, fault, lastCall, callCounts>>

\* Confidence with `>` for `>=`
ConfidenceStrict(sc) == IF sc[1] > 2 * sc[2] THEN "Success" ELSE "Unclear"

\* line 217: Success is if best result is twice the second best
Confidence(sc) == IF sc[1] >= 2 * sc[2] THEN "Success" ELSE "Unclear"

\* lines 216-226: the line printed for the byte; value[0] of the code is
\* value[1] here
main_report ==
    /\ pc = "report"
    /\ report' = Append(report,
                        [conf |-> Confidence(score),
                         value |-> value[1],
                         score |-> score[1],
                         second |-> IF score[2] > 0
                                    THEN <<value[2], score[2]>> ELSE <<>>])
    /\ i' = i + 1
    /\ pc' = "main"
    /\ UNCHANGED <<cfgVars, trainedWith, scanVars, secret, malicious_x, tries, j, x, ri, aggregated_results,
                   cached, array_size_cached, temp, value, score, fault,
                   lastCall, callCounts, decodeCounts>>

\* lines 210, 228: all bytes done
main_return ==
    /\ pc = "main"
    /\ i >= Len(secret)
    /\ pc' = "done"
    /\ UNCHANGED <<cfgVars, trainedWith, scanVars, secret, malicious_x, i, tries, j, x, ri, aggregated_results,
                   cached, array_size_cached, temp, value, score, report,
                   fault, lastCall, callCounts, decodeCounts>>

(***************************************************************************)
(* transmit_and_receive, lines 166-193.                                    *)
(***************************************************************************)
\* TrialsLeft with the last trial dropped
TrialsLeftOffByOne(t) == t > 1

\* line 176: the loop condition
TrialsLeft(t) == t > 0

\* trial_begin without Step 1: the trial would start with train_and_transmit
trial_begin_no_flush ==
    /\ pc = "trial"
    /\ TrialsLeft(tries)
    /\ pc' = "train"
    /\ UNCHANGED <<cfgVars, trainedWith, scanVars, secret, malicious_x, i, tries, j, x, ri, aggregated_results,
                   cached, array_size_cached, temp, value, score, report,
                   fault, lastCall, callCounts, decodeCounts>>

\* line 176, loop taken: the next trial starts with flush_cache
trial_begin ==
    /\ pc = "trial"
    /\ TrialsLeft(tries)
    /\ pc' = "flush"
    /\ UNCHANGED <<cfgVars, trainedWith, scanVars, secret, malicious_x, i, tries, j, x, ri, aggregated_results,
                   cached, array_size_cached, temp, value, score, report,
                   fault, lastCall, callCounts, decodeCounts>>

\* lines 176, 192: loop left, best_results is called
trial_end ==
    /\ pc = "trial"
    /\ ~TrialsLeft(tries)
    /\ pc' = "best"
    /\ UNCHANGED <<cfgVars, trainedWith, scanVars, secret, malicious_x, i, tries, j, x, ri, aggregated_results,
                   cached, array_size_cached, temp, value, score, report,
                   fault, lastCall, callCounts, decodeCounts>>

\* FlushedLines with the loop of line 80 one iteration short
FlushedLinesShort == {PartitionAddr(p) : p \in 0 .. (NUM_PARTITIONS - 2)}

\* lines 80-81: the lines flush_cache evicts
FlushedLines == {PartitionAddr(p) : p \in 0 .. (NUM_PARTITIONS - 1)}

\* lines 77-82 and 179
flush_cache ==
    /\ pc = "flush"
    /\ cached' = cached \ FlushedLines
    /\ nFlush' = nFlush + 1
    /\ pc' = "train"
    /\ UNCHANGED <<cfgVars, trainedWith, scanVars, secret, malicious_x, i, tries, j, x, ri, aggregated_results,
                   array_size_cached, temp, value, score, report, fault,
                   lastCall, callCounts, nTrain, nRecv, nBest>>

\* lines 192, 113-116: the call; best = second_best = -1, i = 0
best_results_enter ==
    /\ pc = "best"
    /\ best' = -1
    /\ second_best' = -1
    /\ bi' = 0
    /\ pc' = "scan"
    /\ UNCHANGED <<cfgVars, trainedWith, secret, malicious_x, i, tries, j, x, ri, aggregated_results,
                   cached, array_size_cached, temp, value, score, report,
                   fault, lastCall, callCounts, decodeCounts>>

\* lines 116-123: one iteration of the scan
best_results_step ==
    /\ pc = "scan"
    /\ bi < NUM_PARTITIONS
    /\ LET b == BestStep(aggregated_results, bi,
                         [best |-> best, second_best |-> second_best])
       IN  /\ best' = b.best
           /\ second_best' = b.second_best
    /\ bi' = bi + 1
    /\ UNCHANGED <<cfgVars, trainedWith, secret, malicious_x, pc, i, tries, j, x, ri,
                   aggregated_results, cached, array_size_cached, temp, value,
                   score, report, fault, lastCall, callCounts, decodeCounts>>

\* lines 116, 124-128: the scan is over, the top two are returned
best_results_return ==
    /\ pc = "scan"
    /\ bi >= NUM_PARTITIONS
    /\ LET r == best_results(aggregated_results,
                             [best |-> best, second_best |-> second_best])
       IN  /\ value' = r.value
           /\ score' = r.score
    /\ nBest' = nBest + 1
    /\ pc' = "report"
    /\ UNCHANGED <<cfgVars, trainedWith, scanVars, secret, malicious_x, i, tries, j, x, ri,
                   aggregated_results, cached, array_size_cached, temp, report,
                   fault, lastCall, callCounts, nFlush, nTrain, nRecv>>

(***************************************************************************)
(* train_and_transmit, lines 133-163.                                      *)
(***************************************************************************)
\* lines 182, 142: the call, and the loop's initialisation
train_and_transmit_enter ==
    /\ pc = "train"
    /\ j' = 0
    /\ trainRun' = 0 /\ nTrainCalls' = 0 /\ nMalCalls' = 0
    /\ trainedWith' = trainedWith \cup {training_x}
    /\ pc' = "round"
    /\ UNCHANGED <<cfgVars, scanVars, secret, malicious_x, i, tries, x, ri, aggregated_results,
                   cached, array_size_cached, temp, value, score, report,
                   fault, lastCall, lastWasMal, decodeCounts>>

\* line 142: the loop condition
RoundsLeft(k) == k <= TRAINING_RUNS * 6

\* lines 142-160: one round up to the call of transmit_byte (the delay loop
\* of line 144 changes nothing)
train_and_transmit_round ==
    /\ pc = "round"
    /\ RoundsLeft(j)
    /\ x' = SelectIndex(j, training_x, target_x)
    /\ pc' = "tb_flush"
    /\ UNCHANGED <<cfgVars, trainedWith, scanVars, secret, malicious_x, i, tries, j, ri, aggregated_results,
                   cached, array_size_cached, temp, value, score, report,
                   fault, lastCall, callCounts, decodeCounts>>

\* lines 142, 163, 188: loop left; receive_bytes starts
train_and_transmit_return ==
    /\ pc = "round"
    /\ ~RoundsLeft(j)
    /\ nTrain' = nTrain + 1
    /\ ri' = 0
    /\ pc' = "receive"
    /\ UNCHANGED <<cfgVars, trainedWith, scanVars, secret, malicious_x, i, tries, j, x, aggregated_results,
                   cached, array_size_cached, temp, value, score, report,
                   fault, lastCall, callCounts, nFlush, nRecv, nBest>>

(***************************************************************************)
(* transmit_byte, lines 48-75.                                             *)
(***************************************************************************)
\* line 53
transmit_byte_clflush ==
    /\ pc = "tb_flush"
    /\ array_size_cached' = FALSE
    /\ pc' = "tb_check"
    /\ UNCHANGED <<cfgVars, trainedWith, scanVars, secret, malicious_x, i, tries, j, x, ri, aggregated_results,
                   cached, temp, value, score, report, fault, lastCall,
                   callCounts, decodeCounts>>

\* lines 72-74: the check loads array_size; its body reads array[x] and the
\* partition array[x] selects (every byte of partitions[] is 1, line 204).
\* Out of bounds nothing happens architecturally, but the body has run
\* speculatively.  Line 142: j++ on return.
transmit_byte_check ==
    /\ pc = "tb_check"
    /\ array_size_cached' = TRUE
    /\ IF InBounds(x)
       THEN /\ cached' = cached \cup {PartitionAddr(MemoryAt(x))}
            /\ temp' = BitAnd(temp, 1)
            /\ fault' = (fault \/ x >= ARRAY_SIZE)
            /\ lastCall' = [x |-> x, readArray |-> TRUE, readProbe |-> TRUE,
                            tempBefore |-> temp]
       ELSE /\ cached' = cached \cup SpeculativeTouch(x)
            /\ lastCall' = [x |-> x, readArray |-> FALSE, readProbe |-> FALSE,
                            tempBefore |-> temp]
            /\ UNCHANGED <<temp, fault>>
    /\ trainRun' = IF x = target_x THEN 0 ELSE trainRun + 1
    /\ lastWasMal' = (x = target_x)
    /\ nMalCalls' = IF x = target_x THEN nMalCalls + 1 ELSE nMalCalls
    /\ nTrainCalls' = IF x = target_x THEN nTrainCalls ELSE nTrainCalls + 1
    /\ j' = j + 1
    /\ pc' = "round"
    /\ UNCHANGED <<cfgVars, trainedWith, scanVars, secret, malicious_x, i, tries, x, ri, aggregated_results,
                   value, score, report, decodeCounts>>

(***************************************************************************)
(* receive_bytes, lines 85-108.                                            *)
(***************************************************************************)
\* receive_bytes_read with the increment of line 106 outside the test of
\* line 105: every read would be counted
receive_bytes_read_count_all ==
    /\ pc = "receive"
    /\ ri < NUM_PARTITIONS
    /\ aggregated_results' =
          [aggregated_results EXCEPT ![ri] = (@ + 1) % 256]
    /\ cached' = cached \cup {PartitionAddr(ri)}
    /\ ri' = ri + 1
    /\ UNCHANGED <<cfgVars, trainedWith, scanVars, secret, malicious_x, pc, i, tries, j, x, array_size_cached,
                   temp, value, score, report, fault, lastCall, callCounts,
                   decodeCounts>>

\* receive_bytes_read that leaves out the partition of this trial's training
\* index: that read would be neither timed nor counted
receive_bytes_read_skip_training ==
    /\ pc = "receive"
    /\ ri < NUM_PARTITIONS
    /\ LET addr == PartitionAddr(ri)
           read_time_duration == ReadTime(addr \in cached)
       IN  /\ aggregated_results' =
                 IF ri # array(training_x) /\ IsHit(read_time_duration)
                 THEN [aggregated_results EXCEPT ![ri] = (@ + 1) % 256]
                 ELSE aggregated_results
           /\ cached' = cached \cup {addr}
    /\ ri' = ri + 1
    /\ UNCHANGED <<cfgVars, trainedWith, scanVars, secret, malicious_x, pc, i, tries, j, x, array_size_cached,
                   temp, value, score, report, fault, lastCall, callCounts,
                   decodeCounts>>

\* lines 95-106: one timed read; the read itself caches the line
receive_bytes_read ==
    /\ pc = "receive"
    /\ ri < NUM_PARTITIONS
    /\ LET addr == PartitionAddr(ri)
           read_time_duration == ReadTime(addr \in cached)
       IN  /\ aggregated_results' =
                 IF IsHit(read_time_duration)
                 THEN [aggregated_results EXCEPT ![ri] = (@ + 1) % 256]
                 ELSE aggregated_results
           /\ cached' = cached \cup {addr}
    /\ ri' = ri + 1
    /\ UNCHANGED <<cfgVars, trainedWith, scanVars, secret, malicious_x, pc, i, tries, j, x, array_size_cached,
                   temp, value, score, report, fault, lastCall, callCounts,
                   decodeCounts>>

\* lines 95, 108, 176: loop left; tries-- of the trial loop
receive_bytes_return ==
    /\ pc = "receive"
    /\ ri >= NUM_PARTITIONS
    /\ nRecv' = nRecv + 1
    /\ tries' = tries - 1
    /\ pc' = "trial"
    /\ UNCHANGED <<cfgVars, trainedWith, scanVars, secret, malicious_x, i, j, x, ri, aggregated_results,
                   cached, array_size_cached, temp, value, score, report,
                   fault, lastCall, callCounts, nFlush, nTrain, nBest>>

(***************************************************************************)
(* The program.                                                            *)
(***************************************************************************)
Secrets ==
    UNION {[1 .. n -> SecretBytes] : n \in 1 .. MaxSecretLen}

\* main before its loop (lines 198-208): every probe byte has been written,
\* so the whole probe array may be cached; nothing was decoded yet
InitProgram ==
    /\ secret \in Secrets
    /\ malicious_x \in SecretOffsets
    /\ pc = "main"
    /\ i = 0
    /\ tries = 0
    /\ j = 0
    /\ x = 0
    /\ ri = 0
    /\ aggregated_results = ZeroTable
    /\ cached = {PartitionAddr(p) : p \in Partitions}
    /\ array_size_cached = TRUE
    /\ temp = 0
    /\ value = <<0, 0>>
    /\ score = <<0, 0>>
    /\ report = <<>>
    /\ fault = FALSE
    /\ lastCall = NoCall
    /\ trainRun = 0
    /\ lastWasMal = FALSE
    /\ nTrainCalls = 0
    /\ nMalCalls = 0
    /\ nFlush = 0 /\ nTrain = 0 /\ nRecv = 0 /\ nBest = 0
    /\ bi = 0 /\ best = -1 /\ second_best = -1
    /\ trial_count = TRIES
    /\ trainedWith = {}

Init ==
    /\ InitProgram
    /\ h = Idle

Next ==
    \/ main_call
    \/ main_report
    \/ main_return
    \/ trial_begin
    \/ trial_end
    \/ flush_cache
    \/ best_results_enter
    \/ best_results_step
    \/ best_results_return
    \/ train_and_transmit_enter
    \/ train_and_transmit_round
    \/ train_and_transmit_return
    \/ transmit_byte_clflush
    \/ transmit_byte_check
    \/ receive_bytes_read
    \/ receive_bytes_return

Spec == Init /\ [][Next]_vars

(***************************************************************************)
(* best_results and the confidence rule on their own.  On real hardware    *)
(* every timed read may come out either way, so after the last trial any   *)
(* table of counters 0 .. 99 can be in aggregated_results.  The tables     *)
(* drawn here are constant but for at most MaxPert counters.               *)
(***************************************************************************)
PertIdx == {0, 1, 128, 254, 255}
PertVal == {0, 1, 2, 3, TRIES}
BaseVal == {0, 1}

Tables ==
    {[p \in Partitions |-> IF p \in DOMAIN f THEN f[p] ELSE b] :
        f \in UNION {[D -> PertVal] :
                        D \in {E \in SUBSET PertIdx : Cardinality(E) <= MaxPert}},
        b \in BaseVal}

\* transmit_and_receive after its last trial, line 192
InitBest ==
    /\ secret = <<72>>
    /\ malicious_x = 16
    /\ pc = "best"
    /\ i = 0
    /\ tries = 0
    /\ j = TRAINING_RUNS * 6 + 1
    /\ x = malicious_x
    /\ ri = NUM_PARTITIONS
    /\ aggregated_results \in Tables
    /\ cached = {PartitionAddr(p) : p \in Partitions}
    /\ array_size_cached = TRUE
    /\ temp = 0
    /\ value = <<0, 0>>
    /\ score = <<0, 0>>
    /\ report = <<>>
    /\ fault = FALSE
    /\ lastCall = [x |-> malicious_x, readArray |-> FALSE, readProbe |-> FALSE,
                   tempBefore |-> 0]
    /\ trainRun = 0
    /\ lastWasMal = TRUE
    /\ nTrainCalls = TRAINING_RUNS * TRAINING_RUNS
    /\ nMalCalls = TRAINING_RUNS + 1
    /\ nFlush = TRIES /\ nTrain = TRIES /\ nRecv = TRIES /\ nBest = 0
    /\ bi = 0 /\ best = -1 /\ second_best = -1
    /\ trial_count = TRIES
    /\ trainedWith = 0 .. (ARRAY_SIZE - 1)
    /\ h = Idle

NextBest ==
    \/ best_results_enter
    \/ best_results_step
    \/ best_results_return
    \/ main_report
    \/ main_return

SpecBest == InitBest /\ [][NextBest]_vars

(***************************************************************************)
(* Trial-count scaling.  The same byte is decoded with TRIES trials and    *)
(* then once more with twice as many, the scores of the first decode kept  *)
(* in h for the comparison.                                                *)
(***************************************************************************)
InitScale ==
    /\ Init
    /\ Len(secret) = 1

\* lines 166-193 run again for the byte just decoded, the literal 99 of
\* line 176 doubled
decode_again_doubled ==
    /\ pc = "report"
    /\ h = Idle
    /\ h' = [phase |-> "doubled", score |-> score, conf |-> Confidence(score)]
    /\ trial_count' = 2 * trial_count
    /\ pc' = "main"
    /\ UNCHANGED <<trainedWith, scanVars, secret, malicious_x, i, tries, j, x,
                   ri, aggregated_results, cached, array_size_cached, temp,
                   value, score, report, fault, lastCall, callCounts,
                   decodeCounts>>

NextScale ==
    \/ Next
    \/ decode_again_doubled

SpecScale == InitScale /\ [][NextScale]_vars

(***************************************************************************)
(* The hit test of receive_bytes on its own: one elapsed time classified   *)
(* under two thresholds.                                                   *)
(***************************************************************************)
NearThreshold ==
    (CACHE_HIT_THRESHOLD - MaxDelta) .. (CACHE_HIT_THRESHOLD + MaxDelta)

InitThreshold ==
    /\ InitProgram
    /\ secret = <<72>>
    /\ malicious_x = 16
    /\ h \in [phase : {"sample"}, elapsed : NearThreshold,
               T : NearThreshold, T2 : NearThreshold]

\* line 105 applied to the sample, once per threshold
classify_sample ==
    /\ h.phase = "sample"
    /\ h' = [phase |-> "classified", elapsed |-> h.elapsed,
             T |-> h.T, T2 |-> h.T2,
             hit |-> IsHitAt(h.elapsed, h.T),
             hit2 |-> IsHitAt(h.elapsed, h.T2)]
    /\ UNCHANGED <<trial_count, trainedWith, scanVars, secret, malicious_x, pc,
                   i, tries, j, x, ri, aggregated_results, cached,
                   array_size_cached, temp, value, score, report, fault,
                   lastCall, callCounts, decodeCounts>>

NextThreshold == classify_sample

SpecThreshold == InitThreshold /\ [][NextThreshold]_vars

(***************************************************************************)
(* The index selection of train_and_transmit on its own, for every round   *)
(* of the loop and size_t arguments with any pattern of zero and all-ones  *)
(* limbs, and the indices the program passes.                              *)
(***************************************************************************)
TestWords ==
    [1 .. 4 -> {0, LIMB - 1}]
        \cup {ToWord(n) : n \in (0 .. (ARRAY_SIZE - 1)) \cup SecretOffsets}

InitSelect ==
    /\ InitProgram
    /\ secret = <<72>>
    /\ malicious_x = 16
    /\ h \in [phase : {"args"}, j : 0 .. (TRAINING_RUNS * 6),
               training_x : TestWords, malicious_x : TestWords]

\* lines 155-157 applied to the arguments
select_index ==
    /\ h.phase = "args"
    /\ h' = [phase |-> "selected", j |-> h.j,
             training_x |-> h.training_x, malicious_x |-> h.malicious_x,
             mask |-> SelectMask(h.j),
             x |-> SelectWord(h.j, h.training_x, h.malicious_x)]
    /\ UNCHANGED <<trial_count, trainedWith, scanVars, secret, malicious_x, pc,
                   i, tries, j, x, ri, aggregated_results, cached,
                   array_size_cached, temp, value, score, report, fault,
                   lastCall, callCounts, decodeCounts>>

NextSelect == select_index

SpecSelect == InitSelect /\ [][NextSelect]_vars

(***************************************************************************)
(* Properties.                                                             *)
(***************************************************************************)
\* the largest counter of table t among the partitions S
MaxCount(t, S) == CHOOSE m \in {t[p] : p \in S} : \A p \in S : t[p] <= m
\* the highest index of S
MaxIndex(S) == CHOOSE p \in S : \A q \in S : q <= p
\* the lowest index of S
MinIndex(S) == CHOOSE p \in S : \A q \in S : p <= q
\* the partitions of S that hold the count c
Holding(t, S, c) == {p \in S : t[p] = c}

\* transmit_and_receive has returned the decode of byte i to main
Decoded == pc = "report"
\* the bytes main has reported so far
ReportedValues == [k \in 1 .. Len(report) |-> report[k].value]

\* C1: under the deterministic cache model the decode of the first secret
\* byte returns that byte's partition with score[0] = 99 and score[1] = 0,
\* and is classified high-confidence.
C1_ExactSingleHit ==
    (Decoded /\ i = 0) =>
        /\ value[1] = secret[1]
        /\ score[1] = TRIES
        /\ score[2] = 0
        /\ Confidence(score) = "Success"

\* C2: round trip: the decode of the byte at offset k returns the k-th
\* secret byte with score[0] >= 2*score[1]; the bytes decoded in order are
\* the secret.  (Trial by trial, the counter of that byte's partition rises
\* by one.)
C2_RoundTrip ==
    /\ pc = "trial" => aggregated_results[secret[i + 1]] = TRIES - tries
    /\ Decoded => /\ value[1] = secret[i + 1]
                  /\ score[1] >= 2 * score[2]
    /\ \A k \in 1 .. Len(report) :
          /\ report[k].value = secret[k]
          /\ report[k].conf = "Success"
    /\ pc = "done" => ReportedValues = secret

C2_Witness ==
    /\ pc = "done"
    /\ Len(secret) >= 2
    /\ secret[1] # secret[2]
    /\ ReportedValues = secret

\* C3: in every call of transmit_byte array_size is evicted when the bounds
\* check runs; a call with x >= array_size reads neither array[x] nor a
\* probe partition architecturally and leaves temp alone; array[] is never
\* read outside its bounds (no fault).
C3_ArchitecturallySound ==
    /\ pc = "tb_check" => ~array_size_cached
    /\ lastCall.x >= array_size =>
          /\ ~lastCall.readArray
          /\ ~lastCall.readProbe
          /\ temp = lastCall.tempBefore
    /\ lastCall.readArray => lastCall.x < array_size
    /\ ~fault

C3_Witness ==
    /\ pc = "round"
    /\ nMalCalls > 0
    /\ lastCall.x >= array_size
    /\ lastCall.x = target_x

\* C4: a decode runs exactly 99 trials; in each trial flush_cache has
\* completed before train_and_transmit starts, and train_and_transmit before
\* receive_bytes starts; the trials accumulate into one counter table;
\* best_results is called once, after the last receive_bytes.
C4_TrialOrder ==
    /\ pc \in {"trial", "flush"} =>
          /\ nFlush = nRecv /\ nTrain = nRecv /\ nBest = 0
          /\ nRecv = TRIES - tries
          /\ aggregated_results[MemoryAt(target_x)] = nRecv
    /\ pc \in {"train", "round", "tb_flush", "tb_check"} =>
          /\ nFlush = nRecv + 1 /\ nTrain = nRecv /\ nBest = 0
    /\ pc = "receive" =>
          /\ nFlush = nRecv + 1 /\ nTrain = nRecv + 1 /\ nBest = 0
    /\ pc \in {"best", "scan"} =>
          /\ nFlush = TRIES /\ nTrain = TRIES /\ nRecv = TRIES /\ nBest = 0
    /\ Decoded =>
          /\ nFlush = TRIES /\ nTrain = TRIES /\ nRecv = TRIES /\ nBest = 1

C4_Witness ==
    /\ Decoded
    /\ nRecv = TRIES
    /\ nBest = 1
    /\ aggregated_results[secret[i + 1]] = TRIES

\* C5: best_results returns the top two: score[0] is the maximum count and
\* value[0] an index holding it; value[1] is another index, score[1] is the
\* maximum count over all indices but value[0]; so score[0] >= score[1].
C5_TopTwo ==
    Decoded =>
        LET t == aggregated_results
        IN  /\ score[1] = MaxCount(t, Partitions)
            /\ t[value[1]] = score[1]
            /\ value[2] # value[1]
            /\ score[2] = MaxCount(t, Partitions \ {value[1]})
            /\ t[value[2]] = score[2]
            /\ score[1] >= score[2]

C5_Witness ==
    /\ Decoded
    /\ score[1] > score[2]
    /\ score[2] > 1
    /\ value[1] < value[2]

\* C6: ties go to the later index: value[0] is the highest index holding the
\* maximal count, value[1] the highest of the other indices holding the
\* maximal count among those.
C6_LaterIndexWins ==
    Decoded =>
        LET t == aggregated_results
            rest == Partitions \ {value[1]}
        IN  /\ value[1] = MaxIndex(Holding(t, Partitions, MaxCount(t, Partitions)))
            /\ value[2] = MaxIndex(Holding(t, rest, MaxCount(t, rest)))

C6_Witness ==
    /\ Decoded
    /\ score[1] = TRIES
    /\ Cardinality(Holding(aggregated_results, Partitions, TRIES)) >= 2
    /\ value[1] = 254

\* C7 as claimed: ties go to the lowest / earliest index.
C7_EarliestIndexWins ==
    Decoded =>
        LET t == aggregated_results
            rest == Partitions \ {value[1]}
        IN  /\ value[1] = MinIndex(Holding(t, Partitions, MaxCount(t, Partitions)))
            /\ value[2] = MinIndex(Holding(t, rest, MaxCount(t, rest)))

\* C7 as amended: the two candidates are the best and the second best by hit
\* count, and no index after a candidate holds the candidate's count: ties
\* go to the highest / latest index.
C7_LatestIndexWins ==
    Decoded =>
        \A p \in Partitions :
            /\ aggregated_results[p] <= score[1]
            /\ aggregated_results[p] = score[1] => p <= value[1]
            /\ p # value[1] =>
                  /\ aggregated_results[p] <= score[2]
                  /\ aggregated_results[p] = score[2] => p <= value[2]

C7_Witness ==
    /\ Decoded
    /\ score[1] > score[2]
    /\ Cardinality(Holding(aggregated_results, Partitions, score[2])) >= 2
    /\ value[1] = 1
    /\ value[2] = 255

\* C8: every call transmit_byte(malicious_x) comes right after at least
\* TRAINING_RUNS calls transmit_byte(training_x) of the same invocation of
\* train_and_transmit, and no two malicious calls are adjacent.
C8_TrainedBeforeMalicious ==
    (pc = "tb_flush" /\ x = target_x) =>
        /\ trainRun >= TRAINING_RUNS
        /\ ~lastWasMal

\* C9: every invocation of train_and_transmit makes TRAINING_RUNS * 6 calls
\* of transmit_byte, 5 with training_x for each 1 with malicious_x.
C9_ThirtyCalls ==
    pc = "receive" =>
        /\ nTrainCalls + nMalCalls = TRAINING_RUNS * 6
        /\ nTrainCalls = TRAINING_RUNS * nMalCalls

\* C10: a decode is reported "Success" iff score[0] >= 2*score[1] and
\* "Unclear" otherwise; the best value is reported either way, and the
\* program reaches no error state.
C10_ConfidenceRule ==
    /\ (pc = "main" /\ Len(report) > 0) =>
          LET r == report[Len(report)]
              t == aggregated_results
              top == MaxCount(t, Partitions)
              runnerUp == MaxCount(t, Partitions \ {r.value})
          IN  /\ r.conf \in {"Success", "Unclear"}
              /\ r.conf = "Success" <=> top >= 2 * runnerUp
              /\ r.value = value[1]
              /\ t[r.value] = top
    /\ ~fault
    /\ pc \in {"main", "best", "scan", "report", "done"}

C10_Witness ==
    /\ pc = "main"
    /\ Len(report) = 1
    /\ report[1].conf = "Unclear"
    /\ report[1].score > 0

\* C11: with twice the trials (198 for 99) under the deterministic cache
\* model score[0] and score[1] are each exactly twice their 99-trial values
\* and the confidence classification is the same.
C11_ScoresDouble ==
    (Decoded /\ h.phase = "doubled") =>
        /\ score[1] = 2 * h.score[1]
        /\ score[2] = 2 * h.score[2]
        /\ Confidence(score) = h.conf

\* C12: a sample is a hit iff its elapsed time <= threshold; a hit at T is
\* a hit at every T2 >= T, and a miss at T is a miss at every T2 <= T.
C12_ThresholdMonotone ==
    h.phase = "classified" =>
        /\ h.hit <=> h.elapsed <= h.T
        /\ (h.T2 >= h.T /\ h.hit) => h.hit2
        /\ (h.T2 <= h.T /\ ~h.hit) => ~h.hit2

C12_Witness ==
    /\ h.phase = "classified"
    /\ h.T = CACHE_HIT_THRESHOLD
    /\ h.T2 > h.T
    /\ ~h.hit
    /\ h.hit2

\* the probe lines that are cached
ProbeCached == {p \in Partitions : PartitionAddr(p) \in cached}

\* C13: each call of receive_bytes times the partitions 0 .. 255 once each
\* in ascending order; at step i counter i goes up by exactly 1 if the read
\* is a hit and is unchanged otherwise, and no other counter changes.
C13_ReadOncePerPartition ==
    [][/\ (pc # "receive" /\ pc' = "receive") => ri' = 0
       /\ (pc = "receive" /\ pc' = "receive") =>
             /\ ri < NUM_PARTITIONS
             /\ ri' = ri + 1
             /\ aggregated_results' =
                   [aggregated_results EXCEPT
                      ![ri] = IF ReadTime(PartitionAddr(ri) \in cached)
                                    <= CACHE_HIT_THRESHOLD
                              THEN @ + 1 ELSE @]
       /\ (pc = "receive" /\ pc' # "receive") => ri = NUM_PARTITIONS
      ]_vars

C13_Witness ==
    /\ pc = "receive"
    /\ ri = NUM_PARTITIONS
    /\ nRecv = 0
    /\ aggregated_results[secret[i + 1]] = 1
    /\ aggregated_results[0] = 0

\* C14: receive_bytes leaves all 256 probe partitions cached, and at the
\* start of every train_and_transmit call none of them is cached.
C14_ColdBaseline ==
    /\ (pc \in {"trial", "flush"} /\ nRecv > 0) => ProbeCached = Partitions
    /\ (pc = "receive" /\ ri = NUM_PARTITIONS) => ProbeCached = Partitions
    /\ pc = "train" => ProbeCached = {}

C14_Witness ==
    /\ pc = "train"
    /\ nRecv > 0
    /\ ProbeCached = {}

\* C15: a decode starts with all 256 counters 0; no counter decreases
\* during the decode; after k completed trials every counter is <= k, hence
\* <= 99, and the unsigned char increment never wraps.
C15_CountersBounded ==
    /\ [](/\ (pc = "trial" /\ nRecv = 0) =>
                \A p \in Partitions : aggregated_results[p] = 0
          /\ pc \in {"trial", "best", "report"} =>
                \A p \in Partitions :
                    /\ aggregated_results[p] <= nRecv
                    /\ aggregated_results[p] <= TRIES)
    /\ [][pc # "main" =>
            \/ aggregated_results' = aggregated_results
            \/ /\ pc = "receive"
               /\ aggregated_results'[ri] = aggregated_results[ri] + 1
               /\ aggregated_results' =
                     [aggregated_results EXCEPT ![ri] = aggregated_results'[ri]]
         ]_vars

C15_Witness ==
    /\ pc = "trial"
    /\ nRecv = ARRAY_SIZE
    /\ aggregated_results[secret[i + 1]] = nRecv
    /\ aggregated_results[0] = 0

\* C16: in every trial the training index tries % ARRAY_SIZE is below
\* array_size, so every transmit_byte(training_x) call takes the in-bounds
\* branch; over the 99 trials the training index takes every value
\* 0 .. array_size-1.
C16_TrainingIndexLegitimate ==
    /\ pc \in {"train", "round", "tb_flush", "tb_check"} =>
          /\ training_x \in 0 .. (array_size - 1)
          /\ trainedWith \subseteq 0 .. (array_size - 1)
    /\ (pc = "tb_check" /\ x # target_x) =>
          /\ x = training_x
          /\ x < array_size
    /\ (pc = "round" /\ nTrainCalls > 0 /\ ~lastWasMal) =>
          /\ lastCall.x = training_x
          /\ lastCall.readArray
    /\ Decoded => trainedWith = 0 .. (array_size - 1)

C16_Witness ==
    /\ pc = "round"
    /\ nTrainCalls > 0
    /\ ~lastWasMal
    /\ lastCall.readArray
    /\ trainedWith = 0 .. (array_size - 1)

AllOnes == <<LIMB - 1, LIMB - 1, LIMB - 1, LIMB - 1>>
AllZero == <<0, 0, 0, 0>>

TrialsTrainedWith(k) ==
    {t \in (tries + 1) .. trial_count : t % ARRAY_SIZE = k}

\* C18: in every trial the training calls load partition
\* array[tries % ARRAY_SIZE] after the flush and receive_bytes counts it in
\* that trial; after a 99-trial decode each of the partitions 1 .. 16 has a
\* count of at least 6.
C18_TrainingReadsCounted ==
    /\ (pc = "receive" /\ ri = 0) =>
          PartitionAddr(array(training_x)) \in cached
    /\ pc = "trial" =>
          \A k \in 0 .. (ARRAY_SIZE - 1) :
              aggregated_results[array(k)] >= Cardinality(TrialsTrainedWith(k))
    /\ Decoded =>
          \A p \in 1 .. ARRAY_SIZE : aggregated_results[p] >= 6

C18_Witness ==
    /\ pc = "trial"
    /\ nRecv = ARRAY_SIZE + 1
    /\ secret[i + 1] = 72
    /\ \A p \in 1 .. ARRAY_SIZE : aggregated_results[p] >= 1
    /\ aggregated_results[array(TRIES % ARRAY_SIZE)] = 2

\* C19: when no timed read was a hit in any trial the decode returns
\* value[0] = 255, score[0] = 0, value[1] = 254, score[1] = 0 and main
\* reports it as "Success".
C19_NoSignalDecode ==
    (\A p \in Partitions : aggregated_results[p] = 0) =>
        /\ Decoded =>
              /\ value = <<255, 254>>
              /\ score = <<0, 0>>
        /\ (pc \in {"main", "done"} /\ Len(report) > 0) =>
              /\ report[Len(report)].conf = "Success"
              /\ report[Len(report)].value = 255
              /\ report[Len(report)].score = 0
              /\ report[Len(report)].second = <<>>

C19_Witness ==
    /\ pc = "main"
    /\ Len(report) = 1
    /\ \A p \in Partitions : aggregated_results[p] = 0
    /\ report[1].conf = "Success"
    /\ value = <<255, 254>>

====
